---- MODULE Spec2Model ----
(***************************************************************************)
(* A model of pydocusign's DocuSignClient (src/pydocusign/client.py).      *)
(*                                                                         *)
(* The state is one client instance (its attributes) and one envelope      *)
(* object handed to the envelope-creation methods.  Every public method is *)
(* one action; the HTTP exchanges of a call are inputs drawn with \E (the  *)
(* vendor service is the environment).  `last' records what the latest     *)
(* call did: the attribute values before it, the login_information         *)
(* invocations, the HTTP requests sent, the responses received and the     *)
(* outcome (returned value or raised exception).                           *)
(*                                                                         *)
(* Strings are TLA+ strings.  Python's None and '' are both falsy and are  *)
(* both modelled as "".  Timeouts are integers counting microseconds, so   *)
(* that values below and between milliseconds exist.  The text of a JSON   *)
(* document is a token (bodies) or a sequence of <<key, value>> pairs      *)
(* (json_dumps); the decoded document is a record (json_loads).  A body    *)
(* that the code decodes is well-formed JSON: the vendor's REST API is a   *)
(* fixed collaborator (spec.md section 6).                                 *)
(***************************************************************************)
EXTENDS Integers, Sequences, FiniteSets, TLC

VARIABLES root_url, username, password, integrator_key, account_id,
          account_url, app_token, oauth2_token, timeout, envelope,
          logged_in, ctor, last

config == <<root_url, username, password, integrator_key, app_token,
            oauth2_token>>

vars == <<root_url, username, password, integrator_key, account_id,
          account_url, app_token, oauth2_token, timeout, envelope,
          logged_in, ctor, last>>

-----------------------------------------------------------------------------
(* Bounds of the model. *)

\* Largest number of documents of an envelope.
MaxDocs == 2

\* Largest timeout value (in whole seconds) passed to set_timeout.
MaxTimeoutSeconds == 2

-----------------------------------------------------------------------------
(* Values. *)

\* Python's None for a timeout argument / an unset environment variable.
None == -1

\* The state of the _timeout attribute after del_timeout.
NoTimeout == -2

\* One millisecond, 0.001 s, in microseconds (the unit of timeout values).
Millisecond == 1000

\* float(os.environ.get('DOCUSIGN_TIMEOUT', 30)): the default, 30 s.
DefaultTimeout == 30 * 1000 * Millisecond

\* Timeout values given to the constructor, the environment and set_timeout:
\* 0, 0.0009 (the doctest), 0.001, 1.2345 (the doctest) and whole seconds.
TimeoutValues ==
    {0, 900, Millisecond, 1234500} \cup
    {s * 1000 * Millisecond : s \in 1..MaxTimeoutSeconds}

RootUrls == {"", "https://demo.docusign.net/restapi/v2"}
EnvironmentRootUrls == {"https://demo.docusign.net/restapi/v2"}
AccountIds == {"", "A0"}
OAuth2Tokens == {"", "TOKEN0"}
SoboEmails == {"", "sobo@example.com"}
EnvelopeIds == {"E1"}

\* A document of an envelope: models.Document's name, documentId and data.
Documents ==
    {[name |-> "a.pdf", documentId |-> "1", data |-> "%PDF-a"],
     [name |-> "b.pdf", documentId |-> "2", data |-> "%PDF-bb"]}

RECURSIVE SeqsUpTo(_, _)
SeqsUpTo(S, n) ==
    IF n = 0 THEN {<<>>}
    ELSE LET shorter == SeqsUpTo(S, n - 1)
         IN  shorter \cup {Append(s, d) : s \in shorter, d \in S}

\* Envelope objects: the attributes the client reads or writes.
Envelopes ==
    [envelopeId : {"", "E0"},
     client : {"", "other client"},
     sobo_email : SoboEmails,
     documents : SeqsUpTo(Documents, MaxDocs)]

\* HTTP status codes the service answers with.
Statuses == {200, 201, 400}

\* Content-Type headers of responses ("" is a response without the header).
ContentTypes == {"application/json; charset=utf-8", ""}

\* Content-Type.startswith('application/json') over ContentTypes.
startswith_json(content_type) ==
    content_type \in {"application/json", "application/json; charset=utf-8"}

\* Bodies of responses, by what the endpoint answers.
LoginBodies == {"{loginAccounts: [{accountId: A1}]}"}
EnvelopeBodies == {"{envelopeId: E9}"}
TokenBodies == {"{access_token: T1}"}
OtherBodies == {"{}"}
ErrorBodies == {"{errorCode: ERR}"}

\* json.loads / response.json(): the decoded document of a body.
json_loads(text) ==
    [accountIds |-> IF text \in LoginBodies THEN <<"A1">> ELSE <<>>,
     envelopeId |-> IF text \in EnvelopeBodies THEN "E9" ELSE "",
     access_token |-> IF text \in TokenBodies THEN "T1" ELSE "",
     keys |-> IF text \in LoginBodies THEN {"loginAccounts"}
              ELSE IF text \in EnvelopeBodies THEN {"envelopeId"}
              ELSE IF text \in TokenBodies THEN {"access_token"}
              ELSE IF text \in ErrorBodies THEN {"errorCode"}
              ELSE {}]

\* The answer of the service to one HTTP request: either the transport fails
\* or a response with a status, a Content-Type and a body arrives.
TransportFailure ==
    [transport |-> "fail", status |-> 0, content_type |-> "", text |-> ""]

Responses(ok_status, ok_bodies) ==
    {TransportFailure} \cup
    UNION {{[transport |-> "ok", status |-> s, content_type |-> c,
              text |-> t] :
                c \in ContentTypes,
                t \in (IF s = ok_status THEN ok_bodies ELSE ErrorBodies)} :
           s \in Statuses}

\* No HTTP exchange took place.
NoResponse ==
    [transport |-> "none", status |-> 0, content_type |-> "", text |-> ""]

\* Returned values: kind says what the value is ("json": the decoded document
\* of text, "text": the text itself, "raw": the raw stream of the response,
\* "str": a string, "none": nothing is returned), text carries it.
NoValue == [kind |-> "none", text |-> ""]

\* Raised exceptions: the class, and the response status and text the
\* exception carries (0 and "" when it carries none).
NoException == [type |-> "", status |-> 0, text |-> ""]

\* data=None, and the payload dictionaries of the endpoints.
NoData == "None"

-----------------------------------------------------------------------------
(* Pure helpers of the client. *)

\* int(x / 1000): Python's int() truncates toward zero.
int_div(x, d) == IF x >= 0 THEN x \div d ELSE -((-x) \div d)

\* The keys of the dictionaries the client serialises, in the order of the
\* serialised text.
JsonKeys == <<"Username", "Password", "IntegratorKey", "SendOnBehalfOf">>

\* json.dumps of a dictionary (a function from keys to strings): the text, as
\* the sequence of its <<key, value>> members.
json_dumps(dict) ==
    LET keys == SelectSeq(JsonKeys, LAMBDA k : k \in DOMAIN dict)
    IN  [i \in 1..Len(keys) |-> <<keys[i], dict[keys[i]]>>]

\* '{root}/accounts/{account}'.format(...)
AccountUrl(root, account) == root \o "/accounts/" \o account

\* json.dumps(data) of a payload dictionary.
dumps_data(data) == "json.dumps(" \o data \o ")"

\* What a call, or a part of a call, did: outcome is "return" or "raise".
Returned(value, sent, resps) ==
    [outcome |-> "return", exc |-> NoException, ret |-> value,
     sent |-> sent, resps |-> resps]

Raised(type, status, text, sent, resps) ==
    [outcome |-> "raise",
     exc |-> [type |-> type, status |-> status, text |-> text],
     ret |-> NoValue, sent |-> sent, resps |-> resps]

-----------------------------------------------------------------------------
(* Headers and the generic request helper. *)

\* base_headers that forgets the delegated user under OAuth2.
base_headers_drops_act_as(sobo_email) ==
    LET headers == [k \in {"Accept", "Content-Type"} |-> "application/json"]
        auth == [k \in {"Username", "Password", "IntegratorKey"} |->
                    CASE k = "Username" -> username
                      [] k = "Password" -> password
                      [] k = "IntegratorKey" -> integrator_key]
    IN  IF oauth2_token # ""
        THEN ("Authorization" :> ("Bearer " \o oauth2_token)) @@ headers
        ELSE LET sobo_auth == IF sobo_email # ""
                              THEN ("SendOnBehalfOf" :> sobo_email) @@ auth
                              ELSE auth
             IN  ("X-DocuSign-Authentication" :> json_dumps(sobo_auth))
                 @@ headers

base_headers(sobo_email) ==
    LET headers == [k \in {"Accept", "Content-Type"} |-> "application/json"]
        auth == [k \in {"Username", "Password", "IntegratorKey"} |->
                    CASE k = "Username" -> username
                      [] k = "Password" -> password
                      [] k = "IntegratorKey" -> integrator_key]
    IN  IF oauth2_token # ""
        THEN LET bearer == ("Authorization" :> ("Bearer " \o oauth2_token))
                           @@ headers
             IN  IF sobo_email # ""
                 THEN ("X-DocuSign-Act-As-User" :> sobo_email) @@ bearer
                 ELSE bearer
        ELSE LET sobo_auth == IF sobo_email # ""
                              THEN ("SendOnBehalfOf" :> sobo_email) @@ auth
                              ELSE auth
             IN  ("X-DocuSign-Authentication" :> json_dumps(sobo_auth))
                 @@ headers

\* _request comparing the status with 200 instead of expected_status_code.
_request_expects_200(kind, url, method, headers, data, file_data, expected_status_code, sobo_email, response) ==
    LET request == [kind |-> kind, method |-> method,
                    url |-> root_url \o url,
                    headers |-> headers @@ base_headers(sobo_email),
                    data |-> IF file_data # "" THEN file_data
                             ELSE IF data # NoData THEN dumps_data(data)
                             ELSE NoData]
    IN  IF timeout = NoTimeout
        THEN Raised("AttributeError", 0, "", << >>, << >>)
        ELSE IF response.transport = "fail"
        THEN Raised("DocuSignException", 0, "DocuSign request error",
                    <<request>>, <<response>>)
        ELSE IF response.status # 200
        THEN Raised("DocuSignException", response.status, response.text,
                    <<request>>, <<response>>)
        ELSE IF startswith_json(response.content_type)
        THEN Returned([kind |-> "json", text |-> response.text],
                      <<request>>, <<response>>)
        ELSE Returned([kind |-> "text", text |-> response.text],
                      <<request>>, <<response>>)

\* _request sending the request a second time when the first attempt fails.
_request_retrying(kind, url, method, headers, data, file_data, expected_status_code, sobo_email, response) ==
    LET request == [kind |-> kind, method |-> method,
                    url |-> root_url \o url,
                    headers |-> headers @@ base_headers(sobo_email),
                    data |-> IF file_data # "" THEN file_data
                             ELSE IF data # NoData THEN dumps_data(data)
                             ELSE NoData]
    IN  IF timeout = NoTimeout
        THEN Raised("AttributeError", 0, "", << >>, << >>)
        ELSE IF response.transport = "fail"
        THEN Raised("DocuSignException", 0, "DocuSign request error",
                    <<request, request>>, <<response, response>>)
        ELSE IF response.status # expected_status_code
        THEN Raised("DocuSignException", response.status, response.text,
                    <<request, request>>, <<response, response>>)
        ELSE IF startswith_json(response.content_type)
        THEN Returned([kind |-> "json", text |-> response.text],
                      <<request>>, <<response>>)
        ELSE Returned([kind |-> "text", text |-> response.text],
                      <<request>>, <<response>>)

\* _request: one HTTP exchange through requests; response is the answer of
\* the service.  kind tags the request in the record of the call.
_request(kind, url, method, headers, data, file_data, expected_status_code, sobo_email, response) ==
    LET do_url == root_url \o url
        do_headers == headers @@ base_headers(sobo_email)
        do_data == IF file_data # "" THEN file_data
                   ELSE IF data # NoData THEN dumps_data(data)
                   ELSE NoData
        request == [kind |-> kind, method |-> method, url |-> do_url,
                    headers |-> do_headers, data |-> do_data]
    IN  IF timeout = NoTimeout
        THEN \* self.timeout raises before the request is sent
             Raised("AttributeError", 0, "", <<>>, <<>>)
        ELSE IF response.transport = "fail"
        THEN Raised("DocuSignException", 0, "DocuSign request error",
                    <<request>>, <<response>>)
        ELSE IF response.status # expected_status_code
        THEN Raised("DocuSignException", response.status, response.text,
                    <<request>>, <<response>>)
        ELSE IF startswith_json(response.content_type)
        THEN Returned([kind |-> "json", text |-> response.text],
                      <<request>>, <<response>>)
        ELSE Returned([kind |-> "text", text |-> response.text],
                      <<request>>, <<response>>)

NoHeaders == << >>

\* login_information that populates account_id only.
login_information_keeps_url(response) ==
    LET data == _request("login", "/login_information", "GET", NoHeaders,
                         NoData, "", 200, "", response)
        unchanged == [account_id |-> account_id, account_url |-> account_url,
                      logged_in |-> logged_in]
    IN  IF data.outcome = "raise"
        THEN [result |-> data] @@ unchanged
        ELSE IF data.ret.kind # "json"
        THEN [result |-> Raised("TypeError", 0, "", data.sent, data.resps)]
             @@ unchanged
        ELSE IF "loginAccounts" \notin json_loads(data.ret.text).keys
        THEN [result |-> Raised("KeyError", 0, "", data.sent, data.resps)]
             @@ unchanged
        ELSE [result |-> data,
              account_id |-> json_loads(data.ret.text).accountIds[1],
              account_url |-> account_url,
              logged_in |-> TRUE]

\* login_information: the result of the call, with the account_id and
\* account_url it leaves in the client.
login_information(response) ==
    LET data == _request("login", "/login_information", "GET", NoHeaders,
                         NoData, "", 200, "", response)
        unchanged == [account_id |-> account_id, account_url |-> account_url,
                      logged_in |-> logged_in]
    IN  IF data.outcome = "raise"
        THEN [result |-> data] @@ unchanged
        ELSE IF data.ret.kind # "json"
        THEN \* data is a string: data['loginAccounts'] raises
             [result |-> Raised("TypeError", 0, "", data.sent, data.resps)]
             @@ unchanged
        ELSE IF "loginAccounts" \notin json_loads(data.ret.text).keys
        THEN [result |-> Raised("KeyError", 0, "", data.sent, data.resps)]
             @@ unchanged
        ELSE LET account == json_loads(data.ret.text).accountIds[1]
             IN  [result |-> data,
                  account_id |-> account,
                  account_url |-> AccountUrl(root_url, account),
                  logged_in |-> TRUE]

-----------------------------------------------------------------------------
(* The account-scoped endpoint methods that go through _request. *)

ScopedOps ==
    {"get_envelope", "get_envelope_notification",
     "get_envelope_custom_fields", "post_envelope_custom_fields",
     "put_envelope_custom_fields", "void_envelope", "send_envelope",
     "delete_envelope", "search_envelopes", "get_envelope_recipients",
     "post_recipient_view", "put_envelope_recipients",
     "get_envelope_document_list", "upload_document_to_envelope",
     "delete_envelope_documents", "get_template", "get_audit_events"}

\* The HTTP method of each endpoint method.
EndpointMethod(op) ==
    CASE op \in {"post_envelope_custom_fields", "post_recipient_view"}
            -> "POST"
      [] op \in {"put_envelope_custom_fields", "void_envelope",
                 "send_envelope", "delete_envelope",
                 "put_envelope_recipients", "upload_document_to_envelope"}
            -> "PUT"
      [] op = "delete_envelope_documents" -> "DELETE"
      [] OTHER -> "GET"

\* The expected_status_code of each endpoint method (200 by default).
EndpointExpected(op) ==
    IF op \in {"post_envelope_custom_fields", "put_envelope_custom_fields",
               "post_recipient_view"}
    THEN 201 ELSE 200

\* The path of each endpoint method, from the client's account_id.
EndpointPath(op, account, envelope_id) ==
    LET envelope_path == "/accounts/" \o account \o "/envelopes/"
                         \o envelope_id
    IN  CASE op \in {"get_envelope", "void_envelope", "send_envelope"}
                -> envelope_path \o "/"
          [] op = "get_envelope_notification"
                -> envelope_path \o "/notification/"
          [] op \in {"get_envelope_custom_fields",
                     "post_envelope_custom_fields",
                     "put_envelope_custom_fields"}
                -> envelope_path \o "/custom_fields/"
          [] op = "delete_envelope"
                -> "/accounts/" \o account \o "/folders/recyclebin/"
          [] op = "search_envelopes"
                -> "/accounts/" \o account \o "/envelopes/"
                   \o "?from_date=1%2F1%2F1900"
          [] op = "get_envelope_recipients"
                -> envelope_path \o "/recipients"
          [] op = "post_recipient_view"
                -> envelope_path \o "/views/recipient"
          [] op = "put_envelope_recipients"
                -> envelope_path \o "/recipients/" \o "?"
          [] op = "get_envelope_document_list"
                -> envelope_path \o "/documents"
          [] op = "upload_document_to_envelope"
                -> envelope_path \o "/documents/" \o "1"
          [] op = "delete_envelope_documents"
                -> envelope_path \o "/documents/"
          [] op = "get_template"
                -> "/accounts/" \o account \o "/templates/" \o envelope_id
          [] op = "get_audit_events"
                -> envelope_path \o "/audit_events"

\* The payload dictionary of each endpoint method (NoData: data=None).
EndpointData(op) ==
    CASE op \in {"post_envelope_custom_fields",
                 "put_envelope_custom_fields"}
            -> "{textCustomFields, listCustomFields}"
      [] op = "void_envelope" -> "{status: voided, voidedReason}"
      [] op = "send_envelope" -> "{status: sent}"
      [] op = "delete_envelope" -> "{envelopeIds}"
      [] op = "post_recipient_view" -> "{authenticationMethod, ...}"
      [] op = "put_envelope_recipients" -> "{signers}"
      [] op = "delete_envelope_documents" -> "{documents}"
      [] OTHER -> NoData

\* The headers and file_data upload_document_to_envelope passes.
EndpointHeaders(op) ==
    IF op = "upload_document_to_envelope"
    THEN [k \in {"Content-Disposition", "Content-Type"} |->
             IF k = "Content-Type" THEN "application/pdf"
             ELSE "filename=a.pdf"]
    ELSE NoHeaders

EndpointFileData(op) ==
    IF op = "upload_document_to_envelope" THEN "%PDF-a" ELSE ""

\* What the method does with the value _request returned.
PostProcess(op, r) ==
    IF r.outcome = "raise" THEN r
    ELSE IF op = "get_envelope_document_list" /\ r.ret.kind # "json"
    THEN \* data['envelopeDocuments'] on a string
         Raised("TypeError", 0, "", r.sent, r.resps)
    ELSE IF op = "get_audit_events" /\ r.ret.kind # "json"
    THEN \* data.get('auditEvents') on a string
         Raised("AttributeError", 0, "", r.sent, r.resps)
    ELSE r

-----------------------------------------------------------------------------
(* The record of a call. *)

Pre ==
    [account_id |-> account_id, account_url |-> account_url,
     timeout |-> timeout, envelope |-> envelope, logged_in |-> logged_in]

NoParts == [url |-> "", headers |-> NoHeaders, body |-> << >>]

\* A method without the lazy login leaves the account as it is.
NoLogin ==
    [calls |-> 0, result |-> Returned(NoValue, << >>, << >>),
     account_id |-> account_id, account_url |-> account_url,
     logged_in |-> logged_in]

\* op: the method; scoped: it resolves the account lazily; arg: its account
\* or envelope argument; value: its timeout argument; expected: the status its endpoint request expects
\* (0: it checks none); login_calls: invocations of login_information, and
\* login: how the invocation ended ("none" without one).
Call(op, scoped, arg, expected, login, parts, r) ==
    [op |-> op, scoped |-> scoped, arg |-> arg, pre |-> Pre,
     value |-> 0, expected |-> expected, login_calls |-> login.calls,
     login |-> IF login.calls = 0 THEN "none" ELSE login.result.outcome,
     parts |-> parts,
     sent |-> r.sent, resps |-> r.resps, outcome |-> r.outcome,
     exc |-> r.exc, ret |-> r.ret]

\* The lazy login testing account_id instead of account_url.
LazyLogin_on_account_id(login_response) ==
    IF account_id = ""
    THEN [calls |-> 1] @@ login_information(login_response)
    ELSE [calls |-> 0, result |-> Returned(NoValue, << >>, << >>),
          account_id |-> account_id, account_url |-> account_url,
          logged_in |-> logged_in]

\* if not self.account_url: self.login_information()
LazyLogin(login_response) ==
    IF account_url = ""
    THEN [calls |-> 1] @@ login_information(login_response)
    ELSE [calls |-> 0, result |-> Returned(NoValue, << >>, << >>),
          account_id |-> account_id, account_url |-> account_url,
          logged_in |-> logged_in]

\* The requests and responses of the login come before the endpoint's.
After(login, r) ==
    [r EXCEPT !.sent = login.sent \o r.sent,
              !.resps = login.resps \o r.resps]

\* The answers a call may need: one for the login (when the account is not
\* resolved) and one for the endpoint.
LoginResponses ==
    IF account_url = "" THEN Responses(200, LoginBodies) ELSE {NoResponse}

\* No endpoint exchange takes place when the login raised.
EndpointResponses(login, responses) ==
    IF login.result.outcome = "raise" THEN {NoResponse} ELSE responses

\* The end of every call of a client method: the account the login left,
\* and the record of the call.
Finish(op, scoped, arg, expected, login, parts, r) ==
    /\ account_id' = login.account_id
    /\ account_url' = login.account_url
    /\ logged_in' = login.logged_in
    /\ last' = Call(op, scoped, arg, expected, login, parts, r)
    /\ UNCHANGED <<config, timeout, ctor>>

-----------------------------------------------------------------------------
(* Methods that go through _request. *)

LoginInformation ==
    \E response \in Responses(200, LoginBodies) :
        LET login == [calls |-> 1] @@ login_information(response)
        IN  /\ Finish("login_information", FALSE, "", 200, login, NoParts,
                      login.result)
            /\ UNCHANGED envelope

\* account_id=None
NoAccount == "None"

get_account_information(account_id_arg, response) ==
    LET url == IF account_id_arg = NoAccount
               THEN account_url
               ELSE "/accounts/" \o account_id \o "/"
    IN  _request("endpoint", url, "GET", NoHeaders, NoData, "", 200, "",
                 response)

GetAccountInformation ==
    \E account_id_arg \in {NoAccount, "A7"},
       response \in Responses(200, OtherBodies) :
        /\ Finish("get_account_information", FALSE, account_id_arg, 200,
                  NoLogin, NoParts,
                  get_account_information(account_id_arg, response))
        /\ UNCHANGED envelope

get_account_provisioning(response) ==
    _request("endpoint", "/accounts/provisioning", "GET",
             "X-DocuSign-AppToken" :> app_token, NoData, "", 200, "",
             response)

GetAccountProvisioning ==
    \E response \in Responses(200, OtherBodies) :
        /\ Finish("get_account_provisioning", FALSE, "", 200, NoLogin,
                  NoParts, get_account_provisioning(response))
        /\ UNCHANGED envelope

post_account(data, response) ==
    _request("endpoint", "/accounts", "POST", NoHeaders, data, "", 201, "",
             response)

PostAccount ==
    \E response \in Responses(201, OtherBodies) :
        /\ Finish("post_account", FALSE, "", 201, NoLogin, NoParts,
                  post_account("{accountName}", response))
        /\ UNCHANGED envelope

delete_account(accountId, response) ==
    LET data == _request("endpoint", "/accounts/" \o accountId, "DELETE",
                         NoHeaders, NoData, "", 200, "", response)
    IN  IF data.outcome = "raise" THEN data
        ELSE IF data.ret.kind = "json"
        THEN \* data.strip() on a dictionary
             Raised("AttributeError", 0, "", data.sent, data.resps)
        ELSE Returned([kind |-> "bool",
                       text |-> IF data.ret.text = "" THEN "True"
                                ELSE "False"],
                      data.sent, data.resps)

DeleteAccount ==
    \E response \in Responses(200, {""}) :
        /\ Finish("delete_account", FALSE, "A7", 200, NoLogin, NoParts,
                  delete_account("A7", response))
        /\ UNCHANGED envelope

\* One of the account-scoped endpoint methods: the lazy login, then the
\* endpoint request built from the resolved account_id.
AccountScopedCall ==
    \E op \in ScopedOps, envelope_id \in EnvelopeIds,
       login_response \in LoginResponses :
      \E response \in EndpointResponses(
                          LazyLogin(login_response),
                          Responses(EndpointExpected(op), OtherBodies)) :
        LET login == LazyLogin(login_response)
            r == _request("endpoint",
                          EndpointPath(op, login.account_id, envelope_id),
                          EndpointMethod(op), EndpointHeaders(op),
                          EndpointData(op), EndpointFileData(op),
                          EndpointExpected(op), "", response)
        IN  /\ Finish(op, TRUE, envelope_id, EndpointExpected(op), login,
                      NoParts,
                      IF login.result.outcome = "raise" THEN login.result
                      ELSE After(login.result, PostProcess(op, r)))
            /\ UNCHANGED envelope

-----------------------------------------------------------------------------
(* Envelope creation: the multipart request and the pycurl exchange.  A     *)
(* body is the sequence of its lines, each one ended by "\r\n".             *)

Boundary == "--myboundary"
ClosingBoundary == "--myboundary--"

\* json.dumps(envelope.to_dict())
json_data(env) == dumps_data("envelope.to_dict()")

JsonPart(env) ==
    <<"", "", Boundary, "Content-Type: application/json; charset=UTF-8",
      "Content-Disposition: form-data", "", json_data(env)>>

DocumentPart(document) ==
    <<Boundary, "Content-Type:application/pdf",
      "Content-Disposition: file; filename=\"" \o document.name
          \o "\"; documentId=" \o document.documentId \o " ",
      "", document.data, "">>

RECURSIVE docs_body(_)
docs_body(documents) ==
    IF documents = << >> THEN << >>
    ELSE DocumentPart(Head(documents)) \o docs_body(Tail(documents))

\* len(body): the characters of the lines and their "\r\n".
RECURSIVE len(_)
len(body) ==
    IF body = << >> THEN 0 ELSE Len(Head(body)) + 2 + len(Tail(body))

MultipartHeaders(headers, body) ==
    ("Content-Type" :> "multipart/form-data; boundary=myboundary")
    @@ ("Content-Length" :> len(body)) @@ headers

\* account is the account_url after the lazy login.
_create_envelope_from_document_request(env, account) ==
    LET body == JsonPart(env) \o <<Boundary>> \o docs_body(env.documents)
                \o <<ClosingBoundary, "">>
    IN  [url |-> account \o "/envelopes",
         headers |-> MultipartHeaders(base_headers(""), body),
         body |-> body]

_create_envelope_from_template_request(env, account) ==
    LET body == JsonPart(env) \o <<ClosingBoundary, "">>
    IN  [url |-> account \o "/envelopes",
         headers |-> MultipartHeaders(base_headers(env.sobo_email), body),
         body |-> body]

ThisClient == "self"

\* _create_envelope that always stores the new envelopeId.
_create_envelope_overwrites(env, parts, response) ==
    LET request == [kind |-> "endpoint", method |-> "POST",
                    url |-> parts.url, headers |-> parts.headers,
                    data |-> "parts['body']"]
        response_data == json_loads(response.text)
        with_client == IF env.client = ""
                       THEN [env EXCEPT !.client = ThisClient] ELSE env
    IN  IF timeout = NoTimeout
        THEN [result |-> Raised("AttributeError", 0, "", << >>, << >>),
              envelope |-> env]
        ELSE IF response.transport = "fail"
        THEN [result |-> Raised("pycurl.error", 0, "", <<request>>,
                                <<response>>),
              envelope |-> env]
        ELSE IF response.status # 201
        THEN [result |-> Raised("DocuSignException", response.status,
                                response.text, <<request>>, <<response>>),
              envelope |-> env]
        ELSE [result |-> Returned([kind |-> "str",
                                   text |-> response_data.envelopeId],
                                  <<request>>, <<response>>),
              envelope |-> [with_client EXCEPT
                                !.envelopeId = response_data.envelopeId]]

\* _create_envelope: the result of the call and the envelope it leaves.
_create_envelope(env, parts, response) ==
    LET request == [kind |-> "endpoint", method |-> "POST",
                    url |-> parts.url, headers |-> parts.headers,
                    data |-> "parts['body']"]
        response_data == json_loads(response.text)
        with_client == IF env.client = ""
                       THEN [env EXCEPT !.client = ThisClient] ELSE env
    IN  IF timeout = NoTimeout
        THEN \* int(self.timeout * 1000) raises before c.perform()
             [result |-> Raised("AttributeError", 0, "", << >>, << >>),
              envelope |-> env]
        ELSE IF response.transport = "fail"
        THEN [result |-> Raised("pycurl.error", 0, "", <<request>>,
                                <<response>>),
              envelope |-> env]
        ELSE IF response.status # 201
        THEN [result |-> Raised("DocuSignException", response.status,
                                response.text, <<request>>, <<response>>),
              envelope |-> env]
        ELSE IF "envelopeId" \notin response_data.keys
        THEN [result |-> Raised("KeyError", 0, "", <<request>>,
                                <<response>>),
              envelope |-> with_client]
        ELSE [result |-> Returned([kind |-> "str",
                                   text |-> response_data.envelopeId],
                                  <<request>>, <<response>>),
              envelope |->
                  IF with_client.envelopeId = ""
                  THEN [with_client EXCEPT
                            !.envelopeId = response_data.envelopeId]
                  ELSE with_client]

CreateEnvelope(op, login, parts, response) ==
    LET created == _create_envelope(envelope, parts, response)
    IN  IF login.result.outcome = "raise"
        THEN /\ Finish(op, TRUE, "", 201, login, NoParts, login.result)
             /\ UNCHANGED envelope
        ELSE /\ Finish(op, TRUE, "", 201, login, parts,
                       After(login.result, created.result))
             /\ envelope' = created.envelope

CreateEnvelopeFromDocument ==
    \E login_response \in LoginResponses :
      \E response \in EndpointResponses(LazyLogin(login_response),
                          Responses(201, EnvelopeBodies)) :
        LET login == LazyLogin(login_response)
        IN  CreateEnvelope("create_envelope_from_document", login,
                _create_envelope_from_document_request(envelope,
                                                       login.account_url),
                response)

CreateEnvelopeFromTemplate ==
    \E login_response \in LoginResponses :
      \E response \in EndpointResponses(LazyLogin(login_response),
                          Responses(201, EnvelopeBodies)) :
        LET login == LazyLogin(login_response)
        IN  CreateEnvelope("create_envelope_from_template", login,
                _create_envelope_from_template_request(envelope,
                                                       login.account_url),
                response)

-----------------------------------------------------------------------------
(* Document download: requests.get called directly, the raw stream is      *)
(* returned.                                                               *)

DownloadOps == {"get_envelope_document", "download_envelope_documents"}

DownloadUrl(op, account, envelope_id) ==
    LET envelope_url == root_url \o "/accounts/" \o account
                        \o "/envelopes/" \o envelope_id
    IN  IF op = "get_envelope_document"
        THEN envelope_url \o "/documents/" \o "1"
        ELSE envelope_url \o "/documents/combined/" \o "?"
             \o "watermark=True&certificate=True"

download(op, account, envelope_id, response) ==
    LET request == [kind |-> "endpoint", method |-> "GET",
                    url |-> DownloadUrl(op, account, envelope_id),
                    headers |-> base_headers(""), data |-> NoData]
    IN  IF response.transport = "fail"
        THEN Raised("RequestException", 0, "", <<request>>, <<response>>)
        ELSE Returned([kind |-> "raw", text |-> response.text],
                      <<request>>, <<response>>)

Download ==
    \E op \in DownloadOps, envelope_id \in EnvelopeIds,
       login_response \in LoginResponses :
      \E response \in EndpointResponses(LazyLogin(login_response),
                          Responses(200, {"%PDF-a"})) :
        LET login == LazyLogin(login_response)
            r == download(op, login.account_id, envelope_id, response)
        IN  /\ Finish(op, TRUE, envelope_id, 0, login, NoParts,
                      IF login.result.outcome = "raise" THEN login.result
                      ELSE After(login.result, r))
            /\ UNCHANGED envelope

-----------------------------------------------------------------------------
(* OAuth2: class methods, which have no client instance.                   *)

\* oauth2_token_request raising the generic exception.
oauth2_token_request_generic(root, user, pass, key, response) ==
    LET request == [kind |-> "endpoint", method |-> "POST",
                    url |-> root \o "/oauth2/token",
                    headers |-> [k \in {"Accept", "Content-Type"} |->
                        IF k = "Accept" THEN "application/json"
                        ELSE "application/x-www-form-urlencoded"],
                    data |-> "{grant_type: password, client_id: " \o key
                             \o ", username: " \o user \o ", password: "
                             \o pass \o ", scope: api}"]
    IN  IF response.transport = "fail"
        THEN Raised("RequestException", 0, "", <<request>>, <<response>>)
        ELSE IF response.status # 200
        THEN Raised("DocuSignException", response.status,
                    response.text, <<request>>, <<response>>)
        ELSE Returned([kind |-> "str",
                       text |-> json_loads(response.text).access_token],
                      <<request>>, <<response>>)

oauth2_token_request(root, user, pass, key, response) ==
    LET request == [kind |-> "endpoint", method |-> "POST",
                    url |-> root \o "/oauth2/token",
                    headers |-> [k \in {"Accept", "Content-Type"} |->
                        IF k = "Accept" THEN "application/json"
                        ELSE "application/x-www-form-urlencoded"],
                    data |-> "{grant_type: password, client_id: " \o key
                             \o ", username: " \o user \o ", password: "
                             \o pass \o ", scope: api}"]
    IN  IF response.transport = "fail"
        THEN Raised("RequestException", 0, "", <<request>>, <<response>>)
        ELSE IF response.status # 200
        THEN Raised("DocuSignOAuth2Exception", response.status,
                    response.text, <<request>>, <<response>>)
        ELSE IF "access_token" \notin json_loads(response.text).keys
        THEN Raised("KeyError", 0, "", <<request>>, <<response>>)
        ELSE Returned([kind |-> "str",
                       text |-> json_loads(response.text).access_token],
                      <<request>>, <<response>>)

oauth2_token_revoke(root, token, response) ==
    LET request == [kind |-> "endpoint", method |-> "POST",
                    url |-> root \o "/oauth2/revoke",
                    headers |-> [k \in {"Accept", "Content-Type"} |->
                        IF k = "Accept" THEN "application/json"
                        ELSE "application/x-www-form-urlencoded"],
                    data |-> "{token: " \o token \o "}"]
    IN  IF response.transport = "fail"
        THEN Raised("RequestException", 0, "", <<request>>, <<response>>)
        ELSE IF response.status # 200
        THEN Raised("DocuSignOAuth2Exception", response.status,
                    response.text, <<request>>, <<response>>)
        ELSE Returned(NoValue, <<request>>, <<response>>)

OAuth2TokenRequest ==
    \E response \in Responses(200, TokenBodies) :
        /\ last' = Call("oauth2_token_request", FALSE, "", 200, NoLogin, NoParts,
                oauth2_token_request("https://demo.docusign.net/restapi/v2",
                                     "user", "secret", "key", response))
        /\ UNCHANGED <<config, account_id, account_url, timeout, envelope,
                       logged_in, ctor>>

OAuth2TokenRevoke ==
    \E response \in Responses(200, OtherBodies) :
        /\ last' = Call("oauth2_token_revoke", FALSE, "", 200, NoLogin, NoParts,
                oauth2_token_revoke("https://demo.docusign.net/restapi/v2",
                                    "T1", response))
        /\ UNCHANGED <<config, account_id, account_url, timeout, envelope,
                       logged_in, ctor>>

-----------------------------------------------------------------------------
(* The timeout property. *)

\* set_timeout that stores the value as given.
set_timeout_untruncated(value, stored) ==
    IF value < Millisecond
    THEN [result |-> Raised("ValueError", 0,
                            "Cannot set timeout lower than 0.001",
                            << >>, << >>),
          timeout |-> stored]
    ELSE [result |-> Returned(NoValue, << >>, << >>),
          timeout |-> value]

\* set_timeout: the result and the _timeout attribute it leaves.
set_timeout(value, stored) ==
    IF value < Millisecond
    THEN [result |-> Raised("ValueError", 0,
                            "Cannot set timeout lower than 0.001",
                            << >>, << >>),
          timeout |-> stored]
    ELSE [result |-> Returned(NoValue, << >>, << >>),
          timeout |-> int_div(value, Millisecond) * Millisecond]

SetTimeout ==
    \E value \in TimeoutValues :
        /\ timeout' = set_timeout(value, timeout).timeout
        /\ last' = [Call("set_timeout", FALSE, "", 0, NoLogin, NoParts,
                         set_timeout(value, timeout).result)
                        EXCEPT !.value = value]
        /\ UNCHANGED <<config, account_id, account_url, envelope,
                       logged_in, ctor>>

\* del client.timeout; deleting a deleted attribute raises.
DelTimeout ==
    /\ timeout' = NoTimeout
    /\ last' = Call("del_timeout", FALSE, "", 0, NoLogin, NoParts,
                    IF timeout = NoTimeout
                    THEN Raised("AttributeError", 0, "", << >>, << >>)
                    ELSE Returned(NoValue, << >>, << >>))
    /\ UNCHANGED <<config, account_id, account_url, envelope, logged_in,
                   ctor>>

-----------------------------------------------------------------------------
(* Construction. *)

\* The constructor's arguments ("" is the default of the string arguments,
\* None the default of timeout).
AccountUrls == {"", "https://demo.docusign.net/restapi/v2/accounts/A0"}

Arguments(timeouts) ==
    [root_url : RootUrls, username : {"user"}, password : {"secret"},
     integrator_key : {"key"}, account_id : AccountIds,
     account_url : AccountUrls, app_token : {""},
     oauth2_token : OAuth2Tokens, timeout : timeouts]

\* os.environ: the DOCUSIGN_* variables ("" and None: not set).
Environments(timeouts) ==
    [DOCUSIGN_ROOT_URL : EnvironmentRootUrls, DOCUSIGN_USERNAME : {""},
     DOCUSIGN_PASSWORD : {""}, DOCUSIGN_INTEGRATOR_KEY : {""},
     DOCUSIGN_ACCOUNT_ID : {""}, DOCUSIGN_APP_TOKEN : {"APP"},
     DOCUSIGN_OAUTH2_TOKEN : {""}, DOCUSIGN_TIMEOUT : timeouts]

\* os.environ.get(name, '') when the argument is empty.
FromEnvironment(arg, variable) == IF arg # "" THEN arg ELSE variable

\* __init__: the attributes of the new client, and the value it hands to
\* the timeout setter.
DocuSignClient(args, environ) ==
    LET root == FromEnvironment(args.root_url, environ.DOCUSIGN_ROOT_URL)
        account == FromEnvironment(args.account_id,
                                   environ.DOCUSIGN_ACCOUNT_ID)
    IN  [root_url |-> root,
         username |-> FromEnvironment(args.username,
                                      environ.DOCUSIGN_USERNAME),
         password |-> FromEnvironment(args.password,
                                      environ.DOCUSIGN_PASSWORD),
         integrator_key |-> FromEnvironment(args.integrator_key,
                                            environ.DOCUSIGN_INTEGRATOR_KEY),
         account_id |-> account,
         app_token |-> FromEnvironment(args.app_token,
                                       environ.DOCUSIGN_APP_TOKEN),
         oauth2_token |-> FromEnvironment(args.oauth2_token,
                                          environ.DOCUSIGN_OAUTH2_TOKEN),
         account_url |-> IF root # "" /\ account # "" /\ args.account_url = ""
                         THEN AccountUrl(root, account)
                         ELSE args.account_url,
         timeout |-> IF args.timeout # None THEN args.timeout
                     ELSE IF environ.DOCUSIGN_TIMEOUT # None
                     THEN environ.DOCUSIGN_TIMEOUT
                     ELSE DefaultTimeout]

\* The states after a construction that did not raise; ctor keeps the
\* timeout argument and the DOCUSIGN_TIMEOUT the constructor read.
Construct(arguments, environments, envelopes) ==
    \E args \in arguments, environ \in environments :
        LET client == DocuSignClient(args, environ)
            set == set_timeout(client.timeout, NoTimeout)
        IN  /\ set.result.outcome = "return"
            /\ root_url = client.root_url
            /\ username = client.username
            /\ password = client.password
            /\ integrator_key = client.integrator_key
            /\ account_id = client.account_id
            /\ account_url = client.account_url
            /\ app_token = client.app_token
            /\ oauth2_token = client.oauth2_token
            /\ timeout = set.timeout
            /\ envelope \in envelopes
            /\ logged_in = FALSE
            /\ ctor = [timeout |-> args.timeout,
                       DOCUSIGN_TIMEOUT |->
                           IF args.timeout = None
                           THEN environ.DOCUSIGN_TIMEOUT ELSE None]
            /\ last = Call("__init__", FALSE, "", 0, NoLogin, NoParts,
                           Returned(NoValue, << >>, << >>))

-----------------------------------------------------------------------------
(* Specifications. *)

\* The envelope of the client specification.
OneEnvelope ==
    {[envelopeId |-> "", client |-> "", sobo_email |-> "sobo@example.com",
      documents |-> <<[name |-> "a.pdf", documentId |-> "1",
                       data |-> "%PDF-a"]>>]}

\* The client and its requests: every method but the timeout setter.
Init == Construct(Arguments({None}), Environments({None}), OneEnvelope)

Next ==
    \/ LoginInformation
    \/ GetAccountInformation
    \/ GetAccountProvisioning
    \/ PostAccount
    \/ DeleteAccount
    \/ AccountScopedCall
    \/ CreateEnvelopeFromDocument
    \/ CreateEnvelopeFromTemplate
    \/ Download
    \/ OAuth2TokenRequest
    \/ OAuth2TokenRevoke
    \/ DelTimeout

Spec == Init /\ [][Next]_vars

\* Envelope creation over every envelope.
InitEnvelope == Construct(Arguments({None}), Environments({None}), Envelopes)

NextEnvelope ==
    \/ CreateEnvelopeFromDocument
    \/ CreateEnvelopeFromTemplate
    \/ LoginInformation
    \/ DelTimeout

SpecEnvelope == InitEnvelope /\ [][NextEnvelope]_vars

\* The timeout over every constructor argument and environment.
InitTimeout ==
    Construct(Arguments(TimeoutValues \cup {None}),
              Environments(TimeoutValues \cup {None}), OneEnvelope)

NextTimeout ==
    \/ SetTimeout
    \/ DelTimeout
    \/ GetAccountProvisioning

SpecTimeout == InitTimeout /\ [][NextTimeout]_vars

-----------------------------------------------------------------------------
(* Properties. *)

\* The methods that return the value of _request as it is.
RequestOps ==
    (ScopedOps \ {"get_envelope_document_list", "get_audit_events"})
    \cup {"get_account_information", "get_account_provisioning",
          "post_account"}

\* The last request of the latest call and the answer to it.
LastRequest == last.sent[Len(last.sent)]
LastResponse == last.resps[Len(last.resps)]

\* The latest call sent its endpoint request.
EndpointSent == Len(last.sent) >= 1 /\ LastRequest.kind = "endpoint"

\* The kinds of the requests of the latest call, in the order sent.
SentKinds == [i \in 1..Len(last.sent) |-> last.sent[i].kind]

\* C1: _request maps the status to the outcome.  For every response status
\* s and expected status e: when s # e the call raises DocuSignException
\* carrying the status and the text of the response and returns no value;
\* when s = e it raises nothing and returns the decoded JSON body if the
\* Content-Type starts with application/json and the text otherwise.  A
\* transport failure raises DocuSignException too.  The same holds of the
\* login request, which expects 200.
C1_RequestStatusMapping ==
    /\ (last.op \in RequestOps /\ EndpointSent) =>
          /\ LastResponse.transport = "fail" =>
                /\ last.outcome = "raise"
                /\ last.exc.type = "DocuSignException"
                /\ last.ret = NoValue
          /\ (LastResponse.transport = "ok"
                /\ LastResponse.status # last.expected) =>
                /\ last.outcome = "raise"
                /\ last.exc = [type |-> "DocuSignException",
                               status |-> LastResponse.status,
                               text |-> LastResponse.text]
                /\ last.ret = NoValue
          /\ (LastResponse.transport = "ok"
                /\ LastResponse.status = last.expected) =>
                /\ last.outcome = "return"
                /\ last.exc = NoException
                /\ last.ret =
                     [kind |-> IF startswith_json(LastResponse.content_type)
                               THEN "json" ELSE "text",
                      text |-> LastResponse.text]
    /\ (Len(last.sent) >= 1 /\ last.sent[1].kind = "login"
          /\ (last.resps[1].transport = "fail"
               \/ last.resps[1].status # 200)) =>
          /\ last.outcome = "raise"
          /\ last.exc.type = "DocuSignException"
          /\ last.resps[1].transport = "ok" =>
                /\ last.exc.status = last.resps[1].status
                /\ last.exc.text = last.resps[1].text

\* A method expecting 201 was answered 200 and raised.
C1_Witness ==
    /\ last.op = "post_recipient_view"
    /\ EndpointSent
    /\ LastResponse.status = 200
    /\ last.outcome = "raise"
    /\ last.exc.type = "DocuSignException"

\* The status a method documents as its success: the one it checks, 200
\* for the download methods.
SuccessStatus == IF last.expected # 0 THEN last.expected ELSE 200

\* C2: every method that dispatches an HTTP request validates the status
\* of the response before it returns: a call whose endpoint request was
\* answered with a status other than the expected one does not return
\* normally.
C2_StatusValidated ==
    (EndpointSent /\ LastResponse.transport = "ok"
        /\ LastResponse.status # SuccessStatus)
    => last.outcome = "raise"

\* C3: lazy account resolution.  An account-scoped method invokes
\* login_information exactly once if account_url is empty when it is called
\* and not at all otherwise; the login request precedes the endpoint
\* request; once a login has succeeded no account-scoped call logs in
\* again.
C3_LazyLogin ==
    last.scoped =>
        /\ last.login_calls = (IF last.pre.account_url = "" THEN 1 ELSE 0)
        /\ \A i, j \in 1..Len(last.sent) :
              (SentKinds[i] = "login" /\ SentKinds[j] = "endpoint") => i < j
        /\ \A i \in 1..Len(last.sent) :
              SentKinds[i] = "login" => last.pre.account_url = ""
        /\ last.pre.logged_in =>
              /\ last.login_calls = 0
              /\ \A i \in 1..Len(last.sent) : SentKinds[i] # "login"

\* A call logged in lazily and then sent its endpoint request.
C3_Witness ==
    /\ last.scoped
    /\ last.pre.account_url = ""
    /\ last.login_calls = 1
    /\ SentKinds = <<"login", "endpoint">>

\* C4: no retries.  A call sends at most one login request and at most one
\* endpoint request, also when it raises.
C4_NoRetries ==
    /\ Cardinality({i \in 1..Len(last.sent) : SentKinds[i] = "login"}) <= 1
    /\ Cardinality({i \in 1..Len(last.sent) : SentKinds[i] = "endpoint"})
          <= 1
    /\ last.login_calls <= 1
    /\ Len(last.resps) = Len(last.sent)

\* A call whose endpoint request failed raised after that one request.
C4_Witness ==
    /\ last.op = "send_envelope"
    /\ last.outcome = "raise"
    /\ SentKinds = <<"endpoint">>
    /\ LastResponse.transport = "fail"

\* C5: login_information populates the account.  After a login that
\* returned, account_id is the accountId of the first loginAccounts entry
\* of the response and account_url is root_url + '/accounts/' + account_id;
\* after a login that raised, account_id and account_url are as before and
\* the method that triggered it raised without sending its endpoint
\* request.
C5_LoginPopulatesAccount ==
    /\ last.login = "return" =>
          /\ account_id = json_loads(last.resps[1].text).accountIds[1]
          /\ account_url = root_url \o "/accounts/" \o account_id
    /\ last.login = "raise" =>
          /\ account_id = last.pre.account_id
          /\ account_url = last.pre.account_url
          /\ last.outcome = "raise"
          /\ \A i \in 1..Len(last.sent) : SentKinds[i] # "endpoint"

\* send_envelope logged in and the account was populated from the answer.
C5_Witness ==
    /\ last.op = "send_envelope"
    /\ last.login = "return"
    /\ last.pre.account_id # "A1"
    /\ account_id = "A1"

\* The members of the JSON text of the X-DocuSign-Authentication header.
AuthMembers(headers) ==
    {headers["X-DocuSign-Authentication"][i] :
        i \in 1..Len(headers["X-DocuSign-Authentication"])}

\* C6: header construction under each auth mode.  base_headers always has
\* Accept and Content-Type application/json and exactly one credential
\* header: with an OAuth2 token, Authorization: Bearer <token> and no
\* X-DocuSign-Authentication; without, X-DocuSign-Authentication (the JSON
\* of Username, Password, IntegratorKey) and no Authorization.  A SOBO
\* email is the X-DocuSign-Act-As-User header under OAuth2 and the
\* SendOnBehalfOf member of the authentication JSON otherwise, and is
\* nowhere when none is given.
C6_BaseHeaders ==
    \A sobo_email \in SoboEmails :
        LET headers == base_headers(sobo_email)
        IN  /\ {"Accept", "Content-Type"} \subseteq DOMAIN headers
            /\ headers["Accept"] = "application/json"
            /\ headers["Content-Type"] = "application/json"
            /\ oauth2_token # "" =>
                  /\ "Authorization" \in DOMAIN headers
                  /\ headers["Authorization"] = "Bearer " \o oauth2_token
                  /\ "X-DocuSign-Authentication" \notin DOMAIN headers
                  /\ IF sobo_email # ""
                     THEN /\ "X-DocuSign-Act-As-User" \in DOMAIN headers
                          /\ headers["X-DocuSign-Act-As-User"] = sobo_email
                     ELSE "X-DocuSign-Act-As-User" \notin DOMAIN headers
            /\ oauth2_token = "" =>
                  /\ "Authorization" \notin DOMAIN headers
                  /\ "X-DocuSign-Act-As-User" \notin DOMAIN headers
                  /\ "X-DocuSign-Authentication" \in DOMAIN headers
                  /\ AuthMembers(headers) =
                        {<<"Username", username>>, <<"Password", password>>,
                         <<"IntegratorKey", integrator_key>>}
                        \cup (IF sobo_email # ""
                              THEN {<<"SendOnBehalfOf", sobo_email>>}
                              ELSE {})

\* A request was built under OAuth2 on behalf of the envelope's user.
C6_Witness ==
    /\ last.op = "create_envelope_from_template"
    /\ last.parts.url # ""
    /\ oauth2_token # ""
    /\ last.pre.envelope.sobo_email # ""
    /\ "X-DocuSign-Act-As-User" \in DOMAIN last.parts.headers
    /\ last.parts.headers["X-DocuSign-Act-As-User"]
          = last.pre.envelope.sobo_email

\* The parts of a multipart body: a part begins after a boundary line and
\* ends before the next boundary or closing line.
DelimiterLines(body) == {i \in 1..Len(body) : body[i] = Boundary}
ClosingLines(body) == {i \in 1..Len(body) : body[i] = ClosingBoundary}

PartEnd(body, i) ==
    LET later == {j \in (i + 1)..Len(body) :
                     body[j] \in {Boundary, ClosingBoundary}}
    IN  IF later = {} THEN Len(body) + 1
        ELSE CHOOSE j \in later : \A k \in later : j <= k

PartLines(body, i) == {body[j] : j \in (i + 1)..(PartEnd(body, i) - 1)}

\* The k-th boundary line of the body.
NthDelimiter(body, k) ==
    CHOOSE i \in DelimiterLines(body) :
        Cardinality({j \in DelimiterLines(body) : j <= i}) = k

\* C7: multipart framing of envelope creation.  The body of the document
\* variant has exactly 1 + N parts (the JSON part, then one part per
\* document in the order of envelope.documents), none of them empty, and
\* ends with the closing delimiter; the body of the template variant is
\* the JSON part and the closing delimiter; in both the Content-Type names
\* the boundary and Content-Length is the length of the body.
C7_MultipartFraming ==
    (last.op \in {"create_envelope_from_document",
                  "create_envelope_from_template"} /\ last.parts.url # "")
    => LET body == last.parts.body
           documents == IF last.op = "create_envelope_from_document"
                        THEN last.pre.envelope.documents ELSE << >>
       IN  /\ Cardinality(DelimiterLines(body)) = 1 + Len(documents)
           /\ \A i \in DelimiterLines(body) : PartLines(body, i) # {}
           /\ Cardinality(ClosingLines(body)) = 1
           /\ \A c \in ClosingLines(body) :
                 /\ \A i \in DelimiterLines(body) : i < c
                 /\ \A j \in (c + 1)..Len(body) : body[j] = ""
           /\ Cardinality(DelimiterLines(body)) >= 1 =>
                 json_data(last.pre.envelope)
                    \in PartLines(body, NthDelimiter(body, 1))
           /\ \A k \in 1..Len(documents) :
                 Cardinality(DelimiterLines(body)) >= 1 + k =>
                    documents[k].data
                       \in PartLines(body, NthDelimiter(body, 1 + k))
           /\ last.parts.headers["Content-Type"]
                 = "multipart/form-data; boundary=myboundary"
           /\ last.parts.headers["Content-Length"] = len(body)

C9_CreateEnvelope ==
    (last.op \in {"create_envelope_from_document",
                  "create_envelope_from_template"}
        /\ EndpointSent /\ LastResponse.transport = "ok") =>
        IF LastResponse.status = 201
        THEN /\ last.outcome = "return"
             /\ last.ret = [kind |-> "str",
                            text |-> json_loads(LastResponse.text).envelopeId]
             /\ envelope.envelopeId =
                   (IF last.pre.envelope.envelopeId = ""
                    THEN json_loads(LastResponse.text).envelopeId
                    ELSE last.pre.envelope.envelopeId)
             /\ envelope.client =
                   (IF last.pre.envelope.client = ""
                    THEN ThisClient ELSE last.pre.envelope.client)
             /\ envelope.documents = last.pre.envelope.documents
             /\ envelope.sobo_email = last.pre.envelope.sobo_email
        ELSE /\ last.outcome = "raise"
             /\ last.exc.type = "DocuSignException"
             /\ envelope = last.pre.envelope

\* An envelope that had an envelopeId but no client was created: the
\* envelopeId was kept and the client set.
C9_Witness ==
    /\ last.op = "create_envelope_from_document"
    /\ last.outcome = "return"
    /\ last.pre.envelope.envelopeId = "E0"
    /\ last.pre.envelope.client = ""
    /\ last.ret.text = "E9"
    /\ envelope.envelopeId = "E0"
    /\ envelope.client = ThisClient

\* C10: the timeout is at least 0.001 s and has millisecond precision.
\* Whenever the client has a timeout it is a whole number of milliseconds,
\* at least one; set_timeout stores the value truncated to milliseconds;
\* a value below 0.001 raises ValueError and leaves the timeout as it was;
\* a client constructed without a timeout uses DOCUSIGN_TIMEOUT, or 30 s.
C10_Timeout ==
    /\ timeout # NoTimeout =>
          /\ timeout % 1000 = 0
          /\ timeout >= 1000
    /\ last.op = "set_timeout" =>
          IF last.value < 1000
          THEN /\ last.outcome = "raise"
               /\ last.exc.type = "ValueError"
               /\ timeout = last.pre.timeout
          ELSE /\ last.outcome = "return"
               /\ timeout <= last.value
               /\ last.value < timeout + 1000
    /\ (last.op = "__init__" /\ ctor.timeout = None) =>
          LET value == IF ctor.DOCUSIGN_TIMEOUT = None THEN 30 * 1000 * 1000
                       ELSE ctor.DOCUSIGN_TIMEOUT
          IN  /\ timeout <= value
              /\ value < timeout + 1000
    /\ (last.op = "__init__" /\ ctor.timeout # None) =>
          /\ timeout <= ctor.timeout
          /\ ctor.timeout < timeout + 1000

\* The doctest: 1.2345 is stored as 1.234.
C10_Witness ==
    /\ last.op = "set_timeout"
    /\ last.value = 1234500
    /\ last.outcome = "return"
    /\ timeout = 1234000

\* C11: get_account_information requests /accounts/:accountId.  With an
\* explicit account_id the request targets the path of that account; with
\* account_id None it targets the path of the client's own account_id
\* (stated for a client that has one; how often the root URL precedes the
\* path is the matter of C13).
C11_AccountInformationPath ==
    (last.op = "get_account_information" /\ EndpointSent
        /\ last.pre.account_id # "") =>
        LET account == IF last.arg = NoAccount THEN last.pre.account_id
                       ELSE last.arg
        IN  LastRequest.url \in
                {prefix \o "/accounts/" \o account \o slash :
                    prefix \in {root_url, root_url \o root_url},
                    slash \in {"", "/"}}

\* C12: whenever an account-scoped endpoint request is dispatched, the
\* account identifier in its URL /accounts/{accountId}/... is not empty.
C12_AccountResolved ==
    (last.op \in ScopedOps \cup DownloadOps /\ EndpointSent) =>
        /\ LastRequest.url =
              (IF last.op \in ScopedOps
               THEN root_url \o EndpointPath(last.op, account_id, last.arg)
               ELSE DownloadUrl(last.op, account_id, last.arg))
        /\ account_id # ""

\* The account identifiers a client of the model can hold or be given.
KnownAccounts == AccountIds \cup {"A1", "A7"}

\* The paths of the service the client addresses; none begins with the
\* root URL ("" is the root URL alone).
ServicePaths ==
    {"", "/login_information", "/accounts/provisioning", "/accounts"}
    \cup {"/accounts/" \o a : a \in KnownAccounts}
    \cup {"/accounts/" \o a \o "/" : a \in KnownAccounts}
    \cup {"/accounts/" \o a \o "/envelopes" : a \in KnownAccounts}
    \cup {EndpointPath(op, a, e) :
             op \in ScopedOps, a \in KnownAccounts, e \in EnvelopeIds}
    \cup {"/accounts/" \o a \o "/envelopes/" \o e \o "/documents/1" :
             a \in KnownAccounts, e \in EnvelopeIds}
    \cup {"/accounts/" \o a \o "/envelopes/" \o e
             \o "/documents/combined/?watermark=True&certificate=True" :
             a \in KnownAccounts, e \in EnvelopeIds}

\* C13: every URL sent to the service is the root URL followed by exactly
\* one path: no method hands _request a URL that already begins with
\* root_url.
C13_RootOnce ==
    last.op \notin {"oauth2_token_request", "oauth2_token_revoke"} =>
        \A i \in 1..Len(last.sent) :
            last.sent[i].url \in {root_url \o path : path \in ServicePaths}

\* The credential and delegation headers of a request.
CredentialHeaders(headers) ==
    [k \in DOMAIN headers \cap
            {"Authorization", "X-DocuSign-Authentication",
             "X-DocuSign-Act-As-User"} |-> headers[k]]

\* The headers carry the delegated user: X-DocuSign-Act-As-User under
\* OAuth2, the SendOnBehalfOf member of the authentication JSON otherwise.
CarriesSobo(headers, sobo_email) ==
    IF oauth2_token # ""
    THEN /\ "X-DocuSign-Act-As-User" \in DOMAIN headers
         /\ headers["X-DocuSign-Act-As-User"] = sobo_email
    ELSE /\ "X-DocuSign-Authentication" \in DOMAIN headers
         /\ <<"SendOnBehalfOf", sobo_email>> \in AuthMembers(headers)

\* C14: the two envelope-creation request builders apply SOBO alike.  For
\* an envelope with a sobo_email the headers either builder makes carry the
\* delegated user, and the credential headers of the two builders for the
\* same client and envelope are equal.
C14_SoboInBothBuilders ==
    (last.op \in {"create_envelope_from_document",
                  "create_envelope_from_template"}
        /\ last.parts.url # "" /\ last.pre.envelope.sobo_email # "") =>
        /\ CarriesSobo(last.parts.headers, last.pre.envelope.sobo_email)
        /\ CredentialHeaders(
               _create_envelope_from_document_request(
                   last.pre.envelope, account_url).headers)
           = CredentialHeaders(
               _create_envelope_from_template_request(
                   last.pre.envelope, account_url).headers)

====
